---- MODULE Spec2Model ----
(***************************************************************************)
(* A model of two subsystems of onlyrico/unif:                             *)
(*   - the ALBERT language-model example builder                           *)
(*     (src/uf/apps/albert.py, ALBERTLM.convert and ALBERTLM._convert_X);  *)
(*   - the Retro-Reader decision fusion                                    *)
(*     (src/uf/modeling/retro_reader.py, RetroReaderDecoder.__init__).     *)
(* Specifications:                                                         *)
(*   Spec          one call of ALBERTLM.convert on a constructed module    *)
(*   SpecVerifier  the rear verification rule on given scores              *)
(*   SpecRetro     the whole Retro-Reader forward computation              *)
(*   SpecConstruct the vocabulary growth of ALBERTClassifier.__init__ and  *)
(*                 ALBERTLM.__init__                                       *)
(* Real numbers are fixed-point integers; the unit is named where used.    *)
(***************************************************************************)
EXTENDS Integers, Sequences, FiniteSets, TLC

VARIABLES
    self,                   \* ALBERTLM: the module's fields set by __init__
    args,                   \* convert: the arguments of the call
    pc,                     \* convert: position of the call
    idx,                    \* _convert_X: index of the running loop
    segment_input_tokens,   \* _convert_X: tokenized samples (later instances)
    new_segment_input_tokens, \* _convert_X: instances sampled so far
    sentence_order_labels,  \* _convert_X: is_random_next of each instance
    instances,              \* _convert_X: the instances the sampler returned
    examples,               \* _convert_X: the examples appended so far
    error,                  \* the exception that ended the call, or NoError
    data,                   \* convert: the returned dictionary
    vf,                     \* verifier: the scores and hyperparameters given
    vf_evals,               \* verifier: the evaluations made so far
    rr,                     \* Retro-Reader: inputs of the forward computation
    rr_evals                \* Retro-Reader: the forward computations made so far

albert_vars == <<self, args, pc, idx, segment_input_tokens,
                 new_segment_input_tokens, sentence_order_labels, instances,
                 examples, error, data>>
verifier_vars == <<vf, vf_evals>>
retro_vars == <<rr, rr_evals>>
vars == <<self, args, pc, idx, segment_input_tokens,
          new_segment_input_tokens, sentence_order_labels, instances,
          examples, error, data, vf, vf_evals, rr, rr_evals>>

(***************************************************************************)
(* Bounds of the model.                                                    *)
(***************************************************************************)
RetroSeqLen == 3     \* max_seq_length of the Retro-Reader's encoders
MaxBatch == 2        \* samples in a batch of plain samples
MaxSegs == 2         \* segments in the sample of a one-sample batch
MaxSegLen == 1       \* tokens in a segment of such a sample
MaxPredictions == 1  \* largest max_predictions_per_seq
MaxVocabFile == 3    \* tokens in a vocabulary file

(***************************************************************************)
(* Helpers on sequences and integers.                                      *)
(***************************************************************************)
Min(a, b) == IF a <= b THEN a ELSE b
Max(a, b) == IF a >= b THEN a ELSE b

RECURSIVE SumSeq(_)
SumSeq(s) == IF s = <<>> THEN 0 ELSE Head(s) + SumSeq(Tail(s))

RECURSIVE Flatten(_)
Flatten(ss) == IF ss = <<>> THEN <<>> ELSE Head(ss) \o Flatten(Tail(ss))

TotalLen(segments) == Len(Flatten(segments))

Repeat(x, n) == [k \in 1..n |-> x]

SeqsUpTo(S, lo, hi) == UNION {[1..k -> S] : k \in lo..hi}

\* the elements of a set of integers in ascending order
RECURSIVE SortedSeq(_)
SortedSeq(S) ==
    IF S = {} THEN <<>>
    ELSE LET m == CHOOSE x \in S : \A y \in S : x <= y
         IN <<m>> \o SortedSeq(S \ {m})

\* every ordering of a set
RECURSIVE Orderings(_)
Orderings(S) ==
    IF S = {} THEN {<<>>}
    ELSE UNION {{<<x>> \o t : t \in Orderings(S \ {x})} : x \in S}

(***************************************************************************)
(* The tokenizer's vocabulary (an external collaborator): token -> id is   *)
(* the position in Vocab, counted from 0.                                  *)
(***************************************************************************)
Vocab == <<"[PAD]", "[CLS]", "[SEP]", "[MASK]", "a", "the", "cat", "sat">>
VocabWords == {Vocab[k] : k \in 1..Len(Vocab)}
Tokens == {"a", "[MASK]"}

TokenId(t) == (CHOOSE k \in 1..Len(Vocab) : Vocab[k] = t) - 1

convert_tokens_to_ids(tokens) == [k \in 1..Len(tokens) |-> TokenId(tokens[k])]

NoSample == [ok |-> TRUE, segments |-> <<>>]
NoError == [kind |-> "none", line |-> -1, sample |-> NoSample]

(***************************************************************************)
(* com.truncate_segments (not among the sources; modelled from the         *)
(* specification's truncation policy, "trim-from-back", the default        *)
(* truncate_method = "LIFO"): while the segments hold more tokens than the *)
(* budget, the last token of the last non-empty segment is removed.  A     *)
(* budget below zero cannot be met: the removal runs out of tokens and the *)
(* call fails.                                                             *)
(***************************************************************************)
PopLast(segments) ==
    LET k == CHOOSE j \in 1..Len(segments) :
                 /\ Len(segments[j]) > 0
                 /\ \A i \in (j+1)..Len(segments) : Len(segments[i]) = 0
    IN [segments EXCEPT ![k] = SubSeq(@, 1, Len(@) - 1)]

RECURSIVE PopLastN(_, _)
PopLastN(segments, n) ==
    IF n = 0 THEN segments ELSE PopLastN(PopLast(segments), n - 1)

truncate_segments(segments, max_seq_length) ==
    LET total == TotalLen(segments)
    IN IF total <= max_seq_length THEN [ok |-> TRUE, segments |-> segments]
       ELSE IF max_seq_length < 0 THEN [ok |-> FALSE, segments |-> segments]
       ELSE [ok |-> TRUE,
             segments |-> PopLastN(segments, total - max_seq_length)]

(***************************************************************************)
(* create_masked_lm_predictions (not among the sources; modelled from      *)
(* section 4.2 of the specification).  Every token of Tokens is a whole    *)
(* word, so each maskable token is its own unit and any n-gram span is a   *)
(* run of such units.  masked_lm_prob is in percent.  An outcome is the    *)
(* modified tokens, the masked positions (counted from 0) and the original *)
(* tokens there.  With do_permutation a second, disjoint set of positions  *)
(* follows the first in shuffled order; the specification names no         *)
(* substitution for it and its tokens stay in place.                       *)
(***************************************************************************)
\* Python's round(n * masked_lm_prob): halves go to the even neighbour
RoundPct(n, pct) ==
    LET q == (n * pct) \div 100
        r == (n * pct) % 100
    IN IF r > 50 THEN q + 1
       ELSE IF r < 50 THEN q
       ELSE IF q % 2 = 0 THEN q ELSE q + 1

\* units that count the structural tokens in
MaskableWithStructural(tokens) == 1..Len(tokens)

\* the maskable units: every token but "[CLS]" and "[SEP]"
Maskable(tokens) == {i \in 1..Len(tokens) : tokens[i] \notin {"[CLS]", "[SEP]"}}

MaskBudget(tokens, masked_lm_prob, max_predictions_per_seq) ==
    Min(max_predictions_per_seq,
        Max(1, RoundPct(Cardinality(Maskable(tokens)), masked_lm_prob)))

\* the sets of k positions chosen among the units of S
Selections(S, k) == {T \in SUBSET S : Cardinality(T) = Min(k, Cardinality(S))}

\* the words of the vocabulary a random draw is followed for
DrawnWords == {"[SEP]", "cat"}

\* 80% [MASK], 10% the original token, 10% a word drawn from the vocabulary
Substitutions(tokens, S) ==
    {[i \in 1..Len(tokens) |->
         IF i \notin S THEN tokens[i]
         ELSE IF f[i] = "keep" THEN tokens[i] ELSE f[i]] :
        f \in [S -> {"[MASK]", "keep"} \cup DrawnWords]}

create_masked_lm_predictions(tokens, masked_lm_prob, max_pred, do_permutation) ==
    LET budget == MaskBudget(tokens, masked_lm_prob, max_pred)
        Second(S) == IF do_permutation
                     THEN Selections(Maskable(tokens) \ S, budget)
                     ELSE {{}}
    IN UNION { UNION { UNION {
         {[tokens |-> t,
           positions |-> [k \in 1..Len(SortedSeq(S)) |-> SortedSeq(S)[k] - 1]
                         \o [k \in 1..Len(o) |-> o[k] - 1],
           labels |-> [k \in 1..Len(SortedSeq(S)) |-> tokens[SortedSeq(S)[k]]]
                      \o [k \in 1..Len(o) |-> tokens[o[k]]]] :
              t \in Substitutions(tokens, S)}
         : o \in Orderings(P)}
         : P \in Second(S)}
         : S \in Selections(Maskable(tokens), budget)}

(***************************************************************************)
(* create_instances_from_document (not among the sources; modelled from    *)
(* section 4.1 of the specification).  A document is a sequence of         *)
(* segments; an instance is <<tokens_a, tokens_b>> with is_random_next.    *)
(* short_seq_prob is in percent.                                           *)
(***************************************************************************)
\* the target lengths an instance may be built for
TargetLengths(max_num_tokens, short_seq_prob) ==
    {max_num_tokens} \cup
        (IF short_seq_prob > 0 THEN 2..max_num_tokens ELSE {})

\* the last index of the buffer accumulated greedily from index i
RECURSIVE BufferEnd(_, _, _, _)
BufferEnd(document, i, j, target) ==
    IF j = Len(document) \/ TotalLen(SubSeq(document, i, j)) >= target
    THEN j
    ELSE BufferEnd(document, i, j + 1, target)

\* the pair truncated to the budget, one token at a time off the longer
\* group, at its front or at its back
RECURSIVE truncate_seq_pair(_, _, _)
truncate_seq_pair(tokens_a, tokens_b, max_num_tokens) ==
    IF Len(tokens_a) + Len(tokens_b) <= max_num_tokens
    THEN {<<tokens_a, tokens_b>>}
    ELSE IF Len(tokens_a) > Len(tokens_b)
    THEN truncate_seq_pair(Tail(tokens_a), tokens_b, max_num_tokens)
         \cup truncate_seq_pair(SubSeq(tokens_a, 1, Len(tokens_a) - 1),
                                tokens_b, max_num_tokens)
    ELSE truncate_seq_pair(tokens_a, Tail(tokens_b), max_num_tokens)
         \cup truncate_seq_pair(tokens_a,
                                SubSeq(tokens_b, 1, Len(tokens_b) - 1),
                                max_num_tokens)

\* the second group drawn from another document: segments from a random
\* start until the remaining length is covered
RandomSeconds(all_documents, document_index, target_b_length) ==
    UNION {
      {Flatten(SubSeq(all_documents[d], start,
                      BufferEnd(all_documents[d], start, start,
                                target_b_length))) :
          start \in 1..Len(all_documents[d])}
      : d \in (1..Len(all_documents)) \ {document_index}}

\* split points taken anywhere up to the end of the buffer
SplitPointsToEnd(buffer) == 1..Len(buffer)

\* a in [1, len(buffer) - 1] when the buffer has two segments or more,
\* else a = random(1, len(buffer))
SplitPoints(buffer) ==
    IF Len(buffer) >= 2 THEN 1..(Len(buffer) - 1) ELSE {1}

\* the instances one buffer may give, each with the index the next buffer
\* starts at, the split point and the number of segments of the buffer:
\* <<segments, is_random_next, next_i, a, len(buffer)>>
BufferInstances(all_documents, document_index, i, target) ==
    LET document == all_documents[document_index]
        j == BufferEnd(document, i, i, target)
        buffer == SubSeq(document, i, j)
        splits == SplitPoints(buffer)
        Kept(a) ==
            {<<p, FALSE, j + 1, a, Len(buffer)>> :
                p \in truncate_seq_pair(Flatten(SubSeq(buffer, 1, a)),
                         Flatten(SubSeq(buffer, a + 1, Len(buffer))), target)}
        Swapped(a) ==
            IF Len(buffer) > 1
            THEN UNION {
                   {<<p, TRUE, i + a, a, Len(buffer)>> :
                       p \in truncate_seq_pair(Flatten(SubSeq(buffer, 1, a)),
                                               b, target)}
                   : b \in RandomSeconds(all_documents, document_index,
                             target - Len(Flatten(SubSeq(buffer, 1, a))))}
            ELSE {}
    IN UNION {Kept(a) \cup Swapped(a) : a \in splits}

RECURSIVE InstancesFrom(_, _, _, _)
InstancesFrom(all_documents, document_index, i, target) ==
    IF i > Len(all_documents[document_index]) THEN {<<>>}
    ELSE UNION {
           {<<[segments |-> b[1], is_random_next |-> b[2],
               split |-> b[4], buffer_len |-> b[5]]>> \o rest :
               rest \in InstancesFrom(all_documents, document_index, b[3],
                                      target)}
           : b \in BufferInstances(all_documents, document_index, i, target)}

\* no pair of groups fits a budget below zero: the sampler fails
SamplerFails(all_documents, document_index, max_seq_length) ==
    max_seq_length < 0 /\ Len(all_documents[document_index]) > 0

create_instances_from_document(all_documents, document_index, max_seq_length, short_seq_prob) ==
    UNION {InstancesFrom(all_documents, document_index, 1, target) :
              target \in TargetLengths(max_seq_length, short_seq_prob)}

(***************************************************************************)
(* ALBERTLM._convert_X, the body of the loop over the tokenized samples.   *)
(***************************************************************************)
\* 1 + self._do_permutation, a Python bool counted as 0 or 1
PermFactor(do_permutation) == 1 + (IF do_permutation THEN 1 ELSE 0)

\* the length the mask-level arrays are padded to
MaskLevelLength(s) == s.max_predictions_per_seq * PermFactor(s.do_permutation)

\* a budget that forgets the place of [CLS]
TruncateBudgetNoCls(s, segments) == s.max_seq_length - Len(segments)

\* the token budget handed to com.truncate_segments
TruncateBudget(s, segments) == s.max_seq_length - Len(segments) - 1

\* ["[CLS]"] extended by segment + ["[SEP]"] for each segment
InputTokens(segments) ==
    <<"[CLS]">> \o
    Flatten([k \in 1..Len(segments) |-> segments[k] \o <<"[SEP]">>])

\* a mask that forgets the [SEP] of each segment
InputMaskNoSep(segments) ==
    <<1>> \o
    Flatten([k \in 1..Len(segments) |-> Repeat(1, Len(segments[k]))])

\* [1] extended by [1] * (len(segment) + 1) for each segment
InputMask(segments) ==
    <<1>> \o
    Flatten([k \in 1..Len(segments) |-> Repeat(1, Len(segments[k]) + 1)])

\* segment ids that keep counting after the second segment
SegmentIdsCounting(segments) ==
    <<0>> \o
    Flatten([k \in 1..Len(segments) |->
                Repeat(k - 1, Len(segments[k]) + 1)])

\* [0] extended by [min(s_id, 1)] * (len(segment) + 1) for each segment
SegmentIds(segments) ==
    <<0>> \o
    Flatten([k \in 1..Len(segments) |->
                Repeat(Min(k - 1, 1), Len(segments[k]) + 1)])

\* range(n) runs max(n, 0) times
PadCount(target, have) == Max(target - have, 0)

\* indices counted from 1
MaskPositionsFromOne(tokens) ==
    LET S == {i \in 1..Len(tokens) : tokens[i] = "[MASK]"}
    IN [k \in 1..Cardinality(S) |-> SortedSeq(S)[k]]

\* inference: the indices i with _input_tokens[i] == "[MASK]"
MaskPositions(tokens) ==
    LET S == {i \in 1..Len(tokens) : tokens[i] = "[MASK]"}
    IN [k \in 1..Cardinality(S) |-> SortedSeq(S)[k] - 1]

\* the three token-level arrays, padded to max_seq_length
TokenLevel(s, segments, tokens) ==
    LET _input_ids == convert_tokens_to_ids(tokens)
        n == PadCount(s.max_seq_length, Len(_input_ids))
    IN [input_ids |-> _input_ids \o Repeat(0, n),
        input_mask |-> InputMask(segments) \o Repeat(0, n),
        segment_ids |-> SegmentIds(segments) \o Repeat(0, n)]

\* a training example whose padding carries weight 1.0 as well
TrainingExampleWeighted(s, segments, m) ==
    LET n == PadCount(MaskLevelLength(s), Len(m.positions))
        t == TokenLevel(s, segments, m.tokens)
    IN [input_ids |-> t.input_ids,
        input_mask |-> t.input_mask,
        segment_ids |-> t.segment_ids,
        masked_lm_positions |-> m.positions \o Repeat(0, n),
        masked_lm_ids |-> convert_tokens_to_ids(m.labels) \o Repeat(0, n),
        masked_lm_weights |-> Repeat(1, Len(m.positions) + n),
        segments |-> segments,
        tokens |-> m.tokens,
        n_masked |-> Len(m.positions)]

\* an example of the training path; m is what the masking returned.  Beside
\* the arrays an example keeps the truncated segments, the tokens the ids
\* were made of and the number of masked positions before padding.
TrainingExample(s, segments, m) ==
    LET n == PadCount(MaskLevelLength(s), Len(m.positions))
        t == TokenLevel(s, segments, m.tokens)
    IN [input_ids |-> t.input_ids,
        input_mask |-> t.input_mask,
        segment_ids |-> t.segment_ids,
        masked_lm_positions |-> m.positions \o Repeat(0, n),
        masked_lm_ids |-> convert_tokens_to_ids(m.labels) \o Repeat(0, n),
        masked_lm_weights |-> Repeat(1, Len(m.positions)) \o Repeat(0, n),
        segments |-> segments,
        tokens |-> m.tokens,
        n_masked |-> Len(m.positions)]

\* an example of the inference path
InferenceExample(s, segments) ==
    LET tokens == InputTokens(segments)
        positions == MaskPositions(tokens)
        n == PadCount(MaskLevelLength(s), Len(positions))
        t == TokenLevel(s, segments, tokens)
    IN [input_ids |-> t.input_ids,
        input_mask |-> t.input_mask,
        segment_ids |-> t.segment_ids,
        masked_lm_positions |-> positions \o Repeat(0, n),
        masked_lm_ids |-> <<>>,
        masked_lm_weights |-> <<>>,
        segments |-> segments,
        tokens |-> tokens,
        n_masked |-> Len(positions)]

(***************************************************************************)
(* One call of ALBERTLM.convert.                                           *)
(***************************************************************************)
SeqLengths == {2, 5}
BatchSizes == {3}
MaskedLmProbs == {15, 50}
ShortSeqProbs == {10}

BadSample == [ok |-> FALSE, segments |-> <<>>]
Sample(segments) == [ok |-> TRUE, segments |-> segments]

\* the samples of a one-sample batch
RichSamples ==
    {Sample(ss) : ss \in SeqsUpTo(SeqsUpTo(Tokens, 0, MaxSegLen), 1, MaxSegs)}

\* the samples of a longer batch: one segment each
PlainSamples ==
    {BadSample, Sample(<<<<"a">>>>), Sample(<<<<"[MASK]">>>>)}

\* batches of two documents of two segments each
PairBatches ==
    {<<Sample(<<<<"a">>, <<"a">>>>), Sample(<<<<"[MASK]">>, <<"a">>>>)>>}

Batches ==
    {<<x>> : x \in RichSamples} \cup SeqsUpTo(PlainSamples, 1, MaxBatch)
        \cup PairBatches

NoData == [returned |-> FALSE, keys |-> {}, n_inputs |-> 0]
NoVerifier == [given |-> FALSE]
NoRetro == [given |-> FALSE]

\* ALBERTLM.__init__
AlbertModules ==
    [max_seq_length : SeqLengths,
     do_sample_sentence : BOOLEAN,
     max_predictions_per_seq : 1..MaxPredictions,
     do_permutation : BOOLEAN,
     masked_lm_prob : MaskedLmProbs,
     short_seq_prob : ShortSeqProbs,
     batch_size : {0},
     n_gpus : {1}]

\* y is None, or one label per sample
Calls ==
    {[is_training |-> t, X |-> X,
      y |-> [given |-> g, labels |-> IF g THEN Repeat(0, Len(X)) ELSE <<>>]] :
        t \in BOOLEAN, g \in BOOLEAN, X \in Batches}

\* modules whose batch_size a training or scoring entry point has set
FittedModules ==
    [max_seq_length : {5},
     do_sample_sentence : BOOLEAN,
     max_predictions_per_seq : {1},
     do_permutation : {FALSE},
     masked_lm_prob : MaskedLmProbs,
     short_seq_prob : ShortSeqProbs,
     batch_size : BatchSizes,
     n_gpus : {1}]

\* the calls made on them: batches of plain samples
PlainCalls == {a \in Calls : a.X \in SeqsUpTo(PlainSamples, 1, MaxBatch)}

\* a document whose first segment fills the sampler's target alone and
\* leaves the second to a buffer of its own, alone and beside another
\* document
LeftoverDocument == <<<<"a", "a">>, <<"a">>>>
LeftoverBatches ==
    {<<Sample(LeftoverDocument)>>,
     <<Sample(LeftoverDocument), Sample(<<<<"a">>>>)>>}
LeftoverSetups ==
    {<<[max_seq_length |-> 5, do_sample_sentence |-> TRUE,
        max_predictions_per_seq |-> 1, do_permutation |-> FALSE,
        masked_lm_prob |-> 15, short_seq_prob |-> 10,
        batch_size |-> 0, n_gpus |-> 1],
       [is_training |-> TRUE, X |-> X, y |-> [given |-> FALSE, labels |-> <<>>]]>> :
        X \in LeftoverBatches}

\* a batch whose first document has no segment and gives no instance
EmptyDocumentBatch ==
    <<Sample(<<>>), Sample(<<<<"a">>, <<"a">>>>), Sample(<<<<"a">>>>)>>
EmptyDocumentSetups ==
    {<<[max_seq_length |-> 5, do_sample_sentence |-> TRUE,
        max_predictions_per_seq |-> 1, do_permutation |-> FALSE,
        masked_lm_prob |-> 15, short_seq_prob |-> 10,
        batch_size |-> 0, n_gpus |-> 1],
       [is_training |-> TRUE, X |-> EmptyDocumentBatch,
        y |-> [given |-> FALSE, labels |-> <<>>]]>>}

\* a sample of three segments, converted for inference with room to spare
ThreeSegments == <<<<"a">>, <<"a">>, <<"a">>>>
ThreeSegmentSetups ==
    {<<[max_seq_length |-> 10, do_sample_sentence |-> FALSE,
        max_predictions_per_seq |-> 1, do_permutation |-> FALSE,
        masked_lm_prob |-> 15, short_seq_prob |-> 10,
        batch_size |-> 0, n_gpus |-> 1],
       [is_training |-> FALSE, X |-> <<Sample(ThreeSegments)>>,
        y |-> [given |-> FALSE, labels |-> <<>>]]>>}

\* the specification's scenario of the sampler: a corpus of one document
CatDocument == <<<<"the", "cat">>, <<"sat">>>>
CatSetups ==
    {<<[max_seq_length |-> 10, do_sample_sentence |-> TRUE,
        max_predictions_per_seq |-> 1, do_permutation |-> FALSE,
        masked_lm_prob |-> 15, short_seq_prob |-> 0,
        batch_size |-> 0, n_gpus |-> 1],
       [is_training |-> TRUE, X |-> <<Sample(CatDocument)>>,
        y |-> [given |-> FALSE, labels |-> <<>>]]>>}

\* the specification's scenario of the masker: three maskable tokens,
\* masked_lm_prob = 0.5, max_predictions_per_seq = 2
CatSentence == <<<<"the", "cat", "sat">>>>
MaskSetups ==
    {<<[max_seq_length |-> 5, do_sample_sentence |-> FALSE,
        max_predictions_per_seq |-> 2, do_permutation |-> FALSE,
        masked_lm_prob |-> 50, short_seq_prob |-> 10,
        batch_size |-> 0, n_gpus |-> 1],
       [is_training |-> TRUE, X |-> <<Sample(CatSentence)>>,
        y |-> [given |-> TRUE, labels |-> <<0>>]]>>}

\* a module and the call made on it
Setups ==
    (AlbertModules \X Calls) \cup (FittedModules \X PlainCalls)
        \cup LeftoverSetups \cup EmptyDocumentSetups \cup ThreeSegmentSetups
        \cup CatSetups \cup MaskSetups

Init ==
    /\ \E setup \in Setups : self = setup[1] /\ args = setup[2]
    /\ pc = "call"
    /\ idx = 0
    /\ segment_input_tokens = <<>>
    /\ new_segment_input_tokens = <<>>
    /\ sentence_order_labels = <<>>
    /\ instances = <<>>
    /\ examples = <<>>
    /\ error = NoError
    /\ data = NoData
    /\ vf = NoVerifier
    /\ vf_evals = <<>>
    /\ rr = NoRetro
    /\ rr_evals = <<>>

\* the two assertions with their conditions exchanged
ConfigAssertsSwapped(s, a) ==
    IF a.is_training
    THEN IF a.y.given THEN s.do_sample_sentence ELSE ~s.do_sample_sentence
    ELSE TRUE

\* the assertions on is_training, y and do_sample_sentence
ConfigAsserts(s, a) ==
    IF a.is_training
    THEN IF a.y.given THEN ~s.do_sample_sentence ELSE s.do_sample_sentence
    ELSE TRUE

Raise(kind, line, sample) ==
    /\ pc' = "raised"
    /\ error' = [kind |-> kind, line |-> line, sample |-> sample]

\* convert, up to the call of _convert_X
ConvertCheck ==
    /\ pc = "call"
    /\ IF ~ConfigAsserts(self, args)
       THEN Raise("AssertionError", -1, NoSample)
       ELSE /\ pc' = IF Len(args.X) > 0 THEN "tokenize" ELSE "finish"
            /\ error' = error
    /\ UNCHANGED <<self, args, idx, segment_input_tokens,
                   new_segment_input_tokens, sentence_order_labels, instances,
                   examples,
                   data, vf, vf_evals, rr, rr_evals>>

\* where _convert_X goes once every sample is tokenized
AfterTokenize(s, a, tokenized) ==
    IF a.is_training /\ s.do_sample_sentence
    THEN IF Len(tokenized) > 0 THEN "sample" ELSE "finish"
    ELSE IF Len(tokenized) > 0 THEN "build" ELSE "finish"

\* a tokenizing loop that passes over a sample it cannot convert
TokenizeSkipping ==
    /\ pc = "tokenize"
    /\ idx < Len(args.X)
    /\ LET sample == args.X[idx + 1]
       IN /\ segment_input_tokens' =
                 IF sample.ok
                 THEN Append(segment_input_tokens, sample.segments)
                 ELSE segment_input_tokens
          /\ error' = error
          /\ IF idx + 1 = Len(args.X)
             THEN /\ idx' = 0
                  /\ pc' = AfterTokenize(self, args, segment_input_tokens')
             ELSE /\ idx' = idx + 1
                  /\ pc' = pc
    /\ UNCHANGED <<self, args, new_segment_input_tokens,
                   sentence_order_labels, instances, examples, data,
                   vf, vf_evals, rr, rr_evals>>

\* _convert_X: one round of the loop that tokenizes the samples
Tokenize ==
    /\ pc = "tokenize"
    /\ idx < Len(args.X)
    /\ LET sample == args.X[idx + 1]
       IN IF ~sample.ok
          THEN /\ Raise("ValueError", idx, sample)
               /\ UNCHANGED <<idx, segment_input_tokens>>
          ELSE /\ segment_input_tokens' =
                      Append(segment_input_tokens, sample.segments)
               /\ error' = error
               /\ IF idx + 1 = Len(args.X)
                  THEN /\ idx' = 0
                       /\ pc' = AfterTokenize(self, args, segment_input_tokens')
                  ELSE /\ idx' = idx + 1
                       /\ pc' = pc
    /\ UNCHANGED <<self, args, new_segment_input_tokens,
                   sentence_order_labels, instances, examples, data,
                   vf, vf_evals, rr, rr_evals>>

\* labels appended last instance first
InstanceLabelsReversed(returned) ==
    [k \in 1..Len(returned) |->
        returned[Len(returned) + 1 - k].is_random_next]

\* what new_segment_input_tokens and sentence_order_labels are extended by
InstanceSegments(returned) ==
    [k \in 1..Len(returned) |-> returned[k].segments]
InstanceLabels(returned) ==
    [k \in 1..Len(returned) |-> returned[k].is_random_next]

\* _convert_X: one round of the loop that samples the instances of a document
SampleDocument ==
    /\ pc = "sample"
    /\ idx < Len(segment_input_tokens)
    /\ IF SamplerFails(segment_input_tokens, idx + 1, self.max_seq_length - 3)
       THEN /\ Raise("SamplerError", idx, NoSample)
            /\ UNCHANGED <<idx, segment_input_tokens,
                           new_segment_input_tokens, sentence_order_labels,
                           instances>>
       ELSE \E returned \in create_instances_from_document(
                    segment_input_tokens, idx + 1, self.max_seq_length - 3,
                    self.short_seq_prob) :
              LET new == new_segment_input_tokens \o
                         InstanceSegments(returned)
                  labels == sentence_order_labels \o InstanceLabels(returned)
              IN /\ sentence_order_labels' = labels
                 /\ instances' = instances \o
                         [k \in 1..Len(returned) |->
                             [document_index |-> idx, order |-> k,
                              instance |-> returned[k]]]
                 /\ error' = error
                 /\ IF idx + 1 = Len(segment_input_tokens)
                    THEN /\ segment_input_tokens' = new
                         /\ new_segment_input_tokens' = new
                         /\ idx' = 0
                         /\ pc' = IF Len(new) > 0 THEN "build" ELSE "finish"
                    ELSE /\ new_segment_input_tokens' = new
                         /\ idx' = idx + 1
                         /\ UNCHANGED <<pc, segment_input_tokens>>
    /\ UNCHANGED <<self, args, examples, data, vf, vf_evals, rr, rr_evals>>

\* _convert_X: one round of the loop that builds the examples
BuildExample ==
    /\ pc = "build"
    /\ idx < Len(segment_input_tokens)
    /\ LET segments == segment_input_tokens[idx + 1]
           cut == truncate_segments(segments, TruncateBudget(self, segments))
       IN IF ~cut.ok
          THEN /\ Raise("IndexError", idx, NoSample)
               /\ UNCHANGED <<idx, examples>>
          ELSE /\ IF args.is_training
                  THEN \E m \in create_masked_lm_predictions(
                               InputTokens(cut.segments), self.masked_lm_prob,
                               self.max_predictions_per_seq,
                               self.do_permutation) :
                         examples' = Append(examples,
                             TrainingExample(self, cut.segments, m))
                  ELSE examples' = Append(examples,
                             InferenceExample(self, cut.segments))
               /\ error' = error
               /\ IF idx + 1 = Len(segment_input_tokens)
                  THEN idx' = 0 /\ pc' = "finish"
                  ELSE idx' = idx + 1 /\ pc' = pc
    /\ UNCHANGED <<self, args, segment_input_tokens,
                   new_segment_input_tokens, sentence_order_labels, instances,
                   data,
                   vf, vf_evals, rr, rr_evals>>

\* the keys of the dictionary convert returns
DataKeys(s, a) ==
    (IF Len(a.X) > 0
     THEN {"input_ids", "input_mask", "segment_ids", "masked_lm_positions"}
          \cup (IF a.is_training
                THEN {"masked_lm_ids", "masked_lm_weights"} ELSE {})
          \cup (IF a.is_training /\ s.do_sample_sentence
                THEN {"sentence_order_labels"} ELSE {})
     ELSE {})
    \cup (IF a.y.given /\ Len(a.y.labels) > 0
          THEN {"sentence_order_labels"} ELSE {})
    \cup (IF a.is_training \/ (a.y.given /\ Len(a.y.labels) > 0)
          THEN {"sample_weight"} ELSE {})

\* a batch size lowered to the smaller of the two numbers
BatchSizeAfterMin(s, a, n_inputs) ==
    IF Len(a.X) > 0 /\ n_inputs < s.batch_size
    THEN Min(n_inputs, s.n_gpus)
    ELSE s.batch_size

\* if n_inputs < self.batch_size: self.batch_size = max(n_inputs, n_gpus)
BatchSizeAfter(s, a, n_inputs) ==
    IF Len(a.X) > 0 /\ n_inputs < s.batch_size
    THEN Max(n_inputs, s.n_gpus)
    ELSE s.batch_size

\* convert, after the call of _convert_X
ConvertFinish ==
    /\ pc = "finish"
    /\ LET n_inputs == Len(examples)
       IN /\ data' = [returned |-> TRUE, keys |-> DataKeys(self, args),
                      n_inputs |-> n_inputs]
          /\ self' = [self EXCEPT
                         !.batch_size = BatchSizeAfter(self, args, n_inputs)]
    /\ pc' = "done"
    /\ UNCHANGED <<args, idx, segment_input_tokens, new_segment_input_tokens,
                   sentence_order_labels, instances, examples, error,
                   vf, vf_evals, rr, rr_evals>>

Next ==
    \/ ConvertCheck
    \/ Tokenize
    \/ SampleDocument
    \/ BuildExample
    \/ ConvertFinish

Spec == Init /\ [][Next]_vars


(***************************************************************************)
(* Claims on ALBERTLM.convert and ALBERTLM._convert_X (under Spec).        *)
(***************************************************************************)
Example(k) == examples[k]
ExampleIndices == 1..Len(examples)

\* [CLS], the tokens of the segments and one [SEP] for each segment
RealTokens(ex) == 1 + TotalLen(ex.segments) + Len(ex.segments)

\* C2: every example's masked_lm_positions has exactly
\* max_predictions_per_seq * (1 + do_permutation) entries, and every entry
\* after the actual mask count is 0, in training and in inference.
C2_MaskLevelLengthExact ==
    \A k \in ExampleIndices :
        /\ Len(Example(k).masked_lm_positions) = MaskLevelLength(self)
        /\ \A j \in 1..Len(Example(k).masked_lm_positions) :
               j > Example(k).n_masked => Example(k).masked_lm_positions[j] = 0

\* C3: input_ids, input_mask and segment_ids of every example have exactly
\* max_seq_length entries, and after truncation the real tokens never
\* exceed max_seq_length.
C3_TokenLevelLength ==
    \A k \in ExampleIndices :
        /\ Len(Example(k).input_ids) = self.max_seq_length
        /\ Len(Example(k).input_mask) = self.max_seq_length
        /\ Len(Example(k).segment_ids) = self.max_seq_length
        /\ RealTokens(Example(k)) <= self.max_seq_length
        /\ Len(Example(k).tokens) = RealTokens(Example(k))

\* an inference example whose segments lost tokens to the truncation, with
\* three arrays of max_seq_length entries
C3_Witness ==
    /\ pc = "done"
    /\ ~args.is_training
    /\ \E k \in ExampleIndices :
           /\ TotalLen(Example(k).segments) < TotalLen(args.X[k].segments)
           /\ Len(Example(k).input_ids) = self.max_seq_length

\* C4: sum(input_mask) is the number of real tokens, input_mask is a run of
\* 1s followed only by 0s, and every padding position carries input id 0,
\* mask 0 and segment id 0.
C4_InputMask ==
    \A k \in ExampleIndices :
        /\ SumSeq(Example(k).input_mask) = RealTokens(Example(k))
        /\ \A i \in 1..Len(Example(k).input_mask) :
               Example(k).input_mask[i] =
                   IF i <= RealTokens(Example(k)) THEN 1 ELSE 0
        /\ \A i \in 1..Len(Example(k).input_ids) :
               i > RealTokens(Example(k)) =>
                   /\ Example(k).input_ids[i] = 0
                   /\ Example(k).segment_ids[i] = 0
        /\ Len(Example(k).input_mask) = Len(Example(k).input_ids)
        /\ Len(Example(k).segment_ids) = Len(Example(k).input_ids)

\* a training example with real tokens of several segments and padding
C4_Witness ==
    /\ pc = "done"
    /\ args.is_training
    /\ \E k \in ExampleIndices :
           /\ Len(Example(k).segments) >= 2
           /\ TotalLen(Example(k).segments) >= 1
           /\ RealTokens(Example(k)) < self.max_seq_length

\* C5: every non-padding entry of masked_lm_positions is an index of a real
\* token; in training masked_lm_weights is 1.0 for exactly the masked
\* entries, and every padding entry carries position 0, id 0, weight 0.0.
C5_MaskedPositions ==
    \A k \in ExampleIndices :
        /\ \A j \in 1..Example(k).n_masked :
               /\ 0 <= Example(k).masked_lm_positions[j]
               /\ Example(k).masked_lm_positions[j] < RealTokens(Example(k))
        /\ args.is_training =>
               /\ Len(Example(k).masked_lm_weights) =
                      Len(Example(k).masked_lm_positions)
               /\ Len(Example(k).masked_lm_ids) =
                      Len(Example(k).masked_lm_positions)
               /\ \A j \in 1..Len(Example(k).masked_lm_positions) :
                      /\ Example(k).masked_lm_weights[j] =
                             IF j <= Example(k).n_masked THEN 1 ELSE 0
                      /\ j > Example(k).n_masked =>
                             /\ Example(k).masked_lm_positions[j] = 0
                             /\ Example(k).masked_lm_ids[j] = 0

\* a training example with a masked entry and a padding entry
C5_Witness ==
    /\ pc = "done"
    /\ args.is_training
    /\ \E k \in ExampleIndices :
           /\ Example(k).n_masked >= 1
           /\ Len(Example(k).masked_lm_positions) > Example(k).n_masked

\* what a call rejected before any computation leaves behind
NothingComputed ==
    /\ segment_input_tokens = <<>>
    /\ new_segment_input_tokens = <<>>
    /\ sentence_order_labels = <<>>
    /\ instances = <<>>
    /\ examples = <<>>
    /\ data = NoData

\* C6 (as claimed): whenever convert is called with do_sample_sentence set
\* and explicit labels y, training or not, the call is rejected before any
\* tokenization, sampling or masking and returns no data.
C6_RejectedTrainingOrNot ==
    (pc # "call" /\ self.do_sample_sentence /\ args.y.given) =>
        (pc = "raised" /\ error.kind = "AssertionError" /\ NothingComputed)

\* C6 (amended): whenever convert is called with is_training set, on a
\* module with do_sample_sentence set and with explicit labels y, the call
\* is rejected before any tokenization, sampling or masking and returns no
\* data.
C6_RejectedInTraining ==
    (pc # "call" /\ args.is_training /\ self.do_sample_sentence
        /\ args.y.given) =>
        (pc = "raised" /\ error.kind = "AssertionError" /\ NothingComputed)

\* a training call with sampled and explicit labels, rejected
C6_Witness ==
    /\ pc = "raised"
    /\ error.kind = "AssertionError"
    /\ args.is_training /\ self.do_sample_sentence /\ args.y.given

\* the samples of the batch that cannot be converted
Offending == {i \in 1..Len(args.X) : ~args.X[i].ok}
FirstOffending == CHOOSE i \in Offending : \A j \in Offending : i <= j

\* C7: if a sample of the batch cannot be converted, _convert_X raises an
\* error naming the index and the raw value of the first such sample; no
\* example of the batch is returned and nothing is sampled or masked.
C7_FailFast ==
    /\ (Offending # {} /\ pc \notin {"call", "tokenize"}) =>
           /\ pc = "raised"
           /\ error.kind \in {"AssertionError", "ValueError"}
    /\ error.kind = "ValueError" =>
           /\ pc = "raised"
           /\ Offending # {}
           /\ error.line = FirstOffending - 1
           /\ error.sample = args.X[FirstOffending]
           /\ new_segment_input_tokens = <<>>
           /\ sentence_order_labels = <<>>
           /\ examples = <<>>
           /\ data = NoData

\* the error raised for a sample that is not the first of its batch
C7_Witness ==
    /\ pc = "raised"
    /\ error.kind = "ValueError"
    /\ error.line >= 1
    /\ segment_input_tokens # <<>>

(***************************************************************************)
(* Retro-Reader: the rear verification (retro_reader.py, lines 183-189).   *)
(* beta_1, beta_2 and threshold are in tenths.  The scores are in units of *)
(* 1/unit, so v is in units of 1/(10 * unit).                              *)
(***************************************************************************)
\* score_diff = score_has - score_null
ScoreDiff(score_has, score_null) == score_has - score_null

\* v = beta_1 * score_diff + beta_2 * score_ext
VerifierValue(beta_1, beta_2, score_diff, score_ext) ==
    beta_1 * score_diff + beta_2 * score_ext

\* a decision that also accepts v == threshold
VerifierPredGeq(v, threshold, unit) == IF v >= threshold * unit THEN 1 ELSE 0

\* a decision with the comparison reversed
VerifierPredLess(v, threshold, unit) == IF v < threshold * unit THEN 1 ELSE 0

\* tf.cast(tf.greater(v, threshold), tf.int32)
VerifierPred(v, threshold, unit) == IF v > threshold * unit THEN 1 ELSE 0

(***************************************************************************)
(* SpecVerifier: the verification rule applied to given scores, in tenths, *)
(* under thresholds chosen evaluation by evaluation.                       *)
(***************************************************************************)
HasNullScores == {1, 9}
ExternalScores == {-20, 0, 20}
Betas == {5, 10}
Thresholds == {10, 14}

VerifierInputs ==
    [given : {TRUE},
     score_has : HasNullScores,
     score_null : HasNullScores,
     score_ext : ExternalScores,
     beta_1 : Betas,
     beta_2 : Betas]

InitVerifier ==
    /\ vf \in VerifierInputs
    /\ vf_evals = <<>>
    /\ self = [given |-> FALSE]
    /\ args = [given |-> FALSE]
    /\ pc = "idle"
    /\ idx = 0
    /\ segment_input_tokens = <<>>
    /\ new_segment_input_tokens = <<>>
    /\ sentence_order_labels = <<>>
    /\ instances = <<>>
    /\ examples = <<>>
    /\ error = NoError
    /\ data = NoData
    /\ rr = NoRetro
    /\ rr_evals = <<>>

\* one evaluation of the rule; a pair of evaluations is kept
Verify ==
    /\ vf.given
    /\ Len(vf_evals) < 2
    /\ \E threshold \in Thresholds :
         LET v == VerifierValue(vf.beta_1, vf.beta_2,
                      ScoreDiff(vf.score_has, vf.score_null), vf.score_ext)
         IN vf_evals' = Append(vf_evals,
                [threshold |-> threshold,
                 verifier_probs |-> v,
                 verifier_preds |-> VerifierPred(v, threshold, 10)])
    /\ UNCHANGED <<self, args, pc, idx, segment_input_tokens,
                   new_segment_input_tokens, sentence_order_labels, instances,
                   examples,
                   error, data, vf, rr, rr_evals>>

NextVerifier == Verify

SpecVerifier == InitVerifier /\ [][NextVerifier]_vars

\* C1: the verifier value is beta_1 * (score_has - score_null) +
\* beta_2 * score_external and the prediction is 1 exactly when it is
\* strictly greater than the threshold (0 when they are equal); scores 0.9,
\* 0.1 and 2.0 with beta_1 = beta_2 = 0.5 and threshold 1.0 give v = 1.4
\* and verified = true.
C1_VerifierRule ==
    \A k \in 1..Len(vf_evals) :
        LET e == vf_evals[k]
        IN /\ e.verifier_probs =
                  vf.beta_1 * vf.score_has - vf.beta_1 * vf.score_null
                      + vf.beta_2 * vf.score_ext
           /\ e.verifier_probs > 10 * e.threshold => e.verifier_preds = 1
           /\ e.verifier_probs = 10 * e.threshold => e.verifier_preds = 0
           /\ e.verifier_probs < 10 * e.threshold => e.verifier_preds = 0
           /\ (/\ vf.score_has = 9 /\ vf.score_null = 1 /\ vf.score_ext = 20
               /\ vf.beta_1 = 5 /\ vf.beta_2 = 5 /\ e.threshold = 10) =>
                  (e.verifier_probs = 140 /\ e.verifier_preds = 1)

\* the evaluation of the example, and one with v equal to the threshold
C1_Witness ==
    /\ vf.given
    /\ vf.score_has = 9 /\ vf.score_null = 1 /\ vf.score_ext = 20
    /\ vf.beta_1 = 5 /\ vf.beta_2 = 5
    /\ Len(vf_evals) = 2
    /\ vf_evals[1].threshold = 10 /\ vf_evals[1].verifier_preds = 1
    /\ vf_evals[2].threshold = 14 /\ vf_evals[2].verifier_probs = 140
    /\ vf_evals[2].verifier_preds = 0

\* C8: with v fixed and thresholds t1 <= t2, a decision that is false under
\* t1 is false under t2.
C8_ThresholdMonotone ==
    \A i, j \in 1..Len(vf_evals) :
        (/\ vf_evals[i].verifier_probs = vf_evals[j].verifier_probs
         /\ vf_evals[i].threshold <= vf_evals[j].threshold
         /\ vf_evals[i].verifier_preds = 0) =>
            vf_evals[j].verifier_preds = 0

\* v evaluated under a threshold and then under a larger one, the first
\* decision false
C8_Witness ==
    /\ Len(vf_evals) = 2
    /\ vf_evals[1].verifier_probs = vf_evals[2].verifier_probs
    /\ vf_evals[1].threshold < vf_evals[2].threshold
    /\ vf_evals[1].verifier_preds = 0
    /\ vf_evals[2].verifier_preds = 0

(***************************************************************************)
(* SpecRetro: the forward computation of RetroReaderDecoder.__init__ on    *)
(* one example.  A tensor over the positions 0..max_seq_length-1 is a      *)
(* sequence (position p at index p + 1); the hidden dimension is one       *)
(* number.  The intensive logits are whole multiples of ln 2, so that a    *)
(* softmax is the rational 2^l / sum 2^l, kept as numerators over one      *)
(* denominator.  A cross-entropy -sum(one_hot * log_softmax(logits)) is    *)
(* kept as lin + lse * logsumexp(logits).                                  *)
(***************************************************************************)
RECURSIVE Pow2(_)
Pow2(n) == IF n <= 0 THEN 1 ELSE 2 * Pow2(n - 1)

Abs(x) == IF x < 0 THEN -x ELSE x

MaxOf(S) == CHOOSE x \in S : \A y \in S : y <= x
MinOf(S) == CHOOSE x \in S : \A y \in S : x <= y

Range(q) == {q[k] : k \in 1..Len(q)}

\* util.dropout (not among the sources): the tensor itself when the
\* probability is 0.0, else each element dropped or scaled by 1 / (1 - prob)
Dropout(x, prob) ==
    IF prob = 0 THEN {x} ELSE {0, (x * 100) \div (100 - prob)}

DropoutSeq(xs, prob) ==
    {q \in [1..Len(xs) -> UNION {Dropout(xs[k], prob) : k \in 1..Len(xs)}] :
        \A k \in 1..Len(xs) : q[k] \in Dropout(xs[k], prob)}

DropoutMatrix(m, prob) ==
    {n \in [1..Len(m) -> UNION {DropoutSeq(m[f], prob) : f \in 1..Len(m)}] :
        \A f \in 1..Len(m) : n[f] \in DropoutSeq(m[f], prob)}

\* tf.one_hot: an index outside 0..depth-1 gives a vector of zeros
OneHot(index, depth) == [k \in 1..depth |-> IF k - 1 = index THEN 1 ELSE 0]

\* tf.nn.softmax over the positions
Softmax(logits) ==
    LET low == MinOf(Range(logits))
        nums == [k \in 1..Len(logits) |-> Pow2(logits[k] - low)]
    IN [num |-> nums, den |-> SumSeq(nums)]

\* - tf.reduce_sum(one_hot_labels * log_softmax(logits))
CrossEntropy(one_hot, logits) ==
    [lin |-> - SumSeq([k \in 1..Len(logits) |-> one_hot[k] * logits[k]]),
     lse |-> SumSeq(one_hot)]

\* tf.argmax: the first position of the largest logit, counted from 0
ArgMax(logits) ==
    (CHOOSE k \in 1..Len(logits) :
        /\ logits[k] = MaxOf(Range(logits))
        /\ \A j \in 1..(k - 1) : logits[j] < logits[k]) - 1

\* the sketchy reading module, on the pooled output after dropout
Sketchy(r, output_layer) ==
    LET logits == [k \in 1..2 |->
                      r.sketchy_weights[k] * output_layer + r.sketchy_bias[k]]
    IN [logits |-> logits,
        per_example_loss |-> CrossEntropy(OneHot(r.has_answer, 2), logits),
        score_ext |-> logits[2] - logits[1]]

\* H * query_mask
QueryOnly(H, query_mask) == [k \in 1..Len(H) |-> H[k] * query_mask[k]]

\* create_attention_mask_from_input_mask: every row is the mask
AttentionMask(to_mask) == [f \in 1..Len(to_mask) |-> to_mask]

\* attention_layer up to the softmax, for a mask that keeps one position:
\* the adder of -10000.0 leaves the probability 1.0 there and 0.0 elsewhere
AttentionProbs(attention_mask) == attention_mask

\* attention_layer from the dropout on: probabilities times values, the
\* value layer being the query-only representation
ContextLayer(attention_probs, value_layer) ==
    [f \in 1..Len(attention_probs) |->
        SumSeq([t \in 1..Len(value_layer) |->
                   attention_probs[f][t] * value_layer[t]])]

\* matching-attention, with the learned map at zero: M is uniform and every
\* position receives the sum of the query-only representation (in units of
\* 1 / max_seq_length)
MatchingPrime(H, H_Q) == [f \in 1..Len(H) |-> SumSeq(H_Q)]

\* the dropout probability handed to attention_layer
CrossDropoutProb(r) == r.hidden_dropout_prob

\* hidden_dropout_prob if is_training else 0.0
TrainingDropoutProb(r) == IF r.is_training THEN r.hidden_dropout_prob ELSE 0

\* tf.norm(x, np.inf): the largest absolute value
NormInf(x) == MaxOf({Abs(x[k]) : k \in 1..Len(x)})

\* a score that lets the null position take part
ScoreHasWithNull(both) == NormInf(both)

\* score_has: the norm of probs[:, 0, 1:] + probs[:, 1, 1:]
ScoreHas(both) == NormInf(Tail(both))

\* score_null = probs[:, 0, 0] + probs[:, 1, 0]
ScoreNull(both) == both[1]

\* the intensive prediction and the rear verification, on H' after dropout
Intensive(r, output_layer, score_ext) ==
    LET L == Len(output_layer)
        logits == [c \in 1..2 |-> [k \in 1..L |->
                      r.output_weights[c] * output_layer[k] + r.output_bias[c]]]
        probs == [c \in 1..2 |-> Softmax(logits[c])]
        unit == probs[1].den * probs[2].den
        both == [k \in 1..L |-> probs[1].num[k] * probs[2].den
                                   + probs[2].num[k] * probs[1].den]
        score_has == IF L > 1 THEN ScoreHas(both) ELSE 0
        score_null == ScoreNull(both)
        v == VerifierValue(r.beta_1, r.beta_2,
                           ScoreDiff(score_has, score_null), score_ext * unit)
    IN [mrc_probs |-> probs,
        mrc_preds |-> [c \in 1..2 |-> ArgMax(logits[c])],
        intensive_losses |->
            [start |-> CrossEntropy(OneHot(r.label_ids[1], L), logits[1]),
             end |-> CrossEntropy(OneHot(r.label_ids[2], L), logits[2])],
        score_has |-> score_has,
        score_null |-> score_null,
        verifier_probs |-> [num |-> v, den |-> 10 * unit],
        verifier_preds |-> VerifierPred(v, r.threshold, unit)]

\* what a forward computation that raised leaves: nothing
Failed(kind) ==
    [ok |-> FALSE, error |-> kind, strategy |-> "none",
     sketchy_losses |-> [lin |-> 0, lse |-> 0], out |-> [given |-> FALSE]]

\* what a forward computation returns, with the strategy that fused H'
Succeeded(sketchy, intensive, strategy) ==
    [ok |-> TRUE, error |-> "none", strategy |-> strategy,
     sketchy_losses |-> sketchy.per_example_loss, out |-> intensive]

MatchingMechanisms == {"cross-attention", "matching-attention", "other"}
HiddenDropoutProbs == {0, 50}
LabelPositions == {-1, 0, RetroSeqLen - 1, RetroSeqLen}
RetroThresholds == {0, 10}

\* query masks that keep one position after the first
QueryMasks ==
    {[k \in 1..RetroSeqLen |-> IF k = q THEN 1 ELSE 0] : q \in 2..RetroSeqLen}

RetroInputs ==
    [given : {TRUE},
     is_training : BOOLEAN,
     matching_mechanism : MatchingMechanisms,
     hidden_dropout_prob : HiddenDropoutProbs,
     label_ids : LabelPositions \X LabelPositions,
     has_answer : {0, 1},
     query_mask : QueryMasks,
     H : {[k \in 1..RetroSeqLen |-> 1]},
     sketchy_output : {1},
     sketchy_weights : {<<-1, 1>>},
     sketchy_bias : {<<0, 0>>},
     output_weights : {<<1, 2>>},
     output_bias : {<<0, 0>>},
     beta_1 : {5},
     beta_2 : {5},
     threshold : RetroThresholds]

InitRetro ==
    /\ rr \in RetroInputs
    /\ rr_evals = <<>>
    /\ vf = NoVerifier
    /\ vf_evals = <<>>
    /\ self = [given |-> FALSE]
    /\ args = [given |-> FALSE]
    /\ pc = "idle"
    /\ idx = 0
    /\ segment_input_tokens = <<>>
    /\ new_segment_input_tokens = <<>>
    /\ sentence_order_labels = <<>>
    /\ instances = <<>>
    /\ examples = <<>>
    /\ error = NoError
    /\ data = NoData

\* a matching stage in which H' is bound whatever the mechanism
HPrimeBoundAlways(r) == TRUE

\* H' is assigned under `if ... == 'cross-attention'` and under
\* `elif ... == 'matching-attention'`, and nowhere else
HPrimeBound(r) ==
    r.matching_mechanism \in {"cross-attention", "matching-attention"}

\* the fused representations H' the matching stage may give, each with the
\* strategy that gave it
Matched(r) ==
    LET H_Q == QueryOnly(r.H, r.query_mask)
    IN IF r.matching_mechanism = "cross-attention"
       THEN {[strategy |-> "cross-attention",
              H_prime |-> ContextLayer(probs, H_Q)] :
                probs \in DropoutMatrix(
                    AttentionProbs(AttentionMask(r.query_mask)),
                    CrossDropoutProb(r))}
       ELSE {[strategy |-> "matching-attention",
              H_prime |-> MatchingPrime(r.H, H_Q)]}

\* one forward computation; a pair of them is kept
RetroForward ==
    /\ rr.given
    /\ Len(rr_evals) < 2
    /\ \E pooled \in Dropout(rr.sketchy_output, TrainingDropoutProb(rr)) :
         LET sketchy == Sketchy(rr, pooled)
         IN IF ~HPrimeBound(rr)
            THEN rr_evals' = Append(rr_evals, Failed("UnboundLocalError"))
            ELSE \E m \in Matched(rr) :
                   \E output_layer \in
                          DropoutSeq(m.H_prime, TrainingDropoutProb(rr)) :
                      rr_evals' = Append(rr_evals, Succeeded(sketchy,
                          Intensive(rr, output_layer, sketchy.score_ext),
                          m.strategy))
    /\ UNCHANGED <<self, args, pc, idx, segment_input_tokens,
                   new_segment_input_tokens, sentence_order_labels, instances,
                   examples,
                   error, data, vf, vf_evals, rr>>

NextRetro == RetroForward

SpecRetro == InitRetro /\ [][NextRetro]_vars

\* a label index outside 0..max_seq_length-1
OutOfBounds(index) == index < 0 \/ index >= RetroSeqLen

\* C9: a label index outside the sequence bounds (start or end < 0 or
\* >= max_seq_length) is surfaced as an error; the forward computation
\* never accepts it and computes a loss for that example.
C9_OutOfBoundsLabelRaises ==
    \A k \in 1..Len(rr_evals) :
        (OutOfBounds(rr.label_ids[1]) \/ OutOfBounds(rr.label_ids[2])) =>
            ~rr_evals[k].ok

\* two representations of the same rational
SameFraction(a, b) == a.num * b.den = b.num * a.den

SameProbs(a, b) ==
    \A c \in 1..2 : \A k \in 1..RetroSeqLen :
        a[c].num[k] * b[c].den = b[c].num[k] * a[c].den

\* C10: with is_training = false two forward computations on the same
\* encoder outputs, query_mask and parameters give identical mrc_probs,
\* verifier_probs and verifier_preds, under both matching mechanisms.
C10_InferenceIsPure ==
    \A i, j \in 1..Len(rr_evals) :
        (~rr.is_training /\ rr_evals[i].ok /\ rr_evals[j].ok) =>
            /\ SameProbs(rr_evals[i].out.mrc_probs, rr_evals[j].out.mrc_probs)
            /\ SameFraction(rr_evals[i].out.verifier_probs,
                            rr_evals[j].out.verifier_probs)
            /\ rr_evals[i].out.verifier_preds = rr_evals[j].out.verifier_preds

\* start_prob[k] + end_prob[k] of an evaluation, over the product of the
\* two denominators; k counts from 1, the null position being k = 1
Combined(e, k) ==
    e.out.mrc_probs[1].num[k] * e.out.mrc_probs[2].den
        + e.out.mrc_probs[2].num[k] * e.out.mrc_probs[1].den

\* C11: score_has is the maximum of start_prob + end_prob over the non-null
\* positions 1..max_seq_length-1 (attained at one of them, below at none),
\* score_null is start_prob[0] + end_prob[0], and position 0 never
\* contributes to score_has.
C11_ScoreHasIsMax ==
    \A i \in 1..Len(rr_evals) :
        rr_evals[i].ok =>
            /\ rr_evals[i].out.score_null = Combined(rr_evals[i], 1)
            /\ \E k \in 2..RetroSeqLen :
                   rr_evals[i].out.score_has = Combined(rr_evals[i], k)
            /\ \A k \in 2..RetroSeqLen :
                   Combined(rr_evals[i], k) <= rr_evals[i].out.score_has

\* an evaluation whose null position carries the largest combined
\* probability, above score_has
C11_Witness ==
    \E i \in 1..Len(rr_evals) :
        /\ rr_evals[i].ok
        /\ \A k \in 2..RetroSeqLen :
               Combined(rr_evals[i], k) < Combined(rr_evals[i], 1)
        /\ rr_evals[i].out.score_has < rr_evals[i].out.score_null

SettingsOf(s) == [s EXCEPT !.batch_size = 0]

\* C12 (as claimed): no step of a convert call changes a field of the
\* module: batch_size, max_seq_length and the masking and sampling settings
\* keep the values they had before the call.
C12_NoFieldChanges == [][self' = self]_vars

\* C12 (amended): no step of a convert call changes a field of the module
\* other than batch_size; batch_size changes only at the end of a call on a
\* non-empty X that gave fewer examples than batch_size, and then to
\* max(n_inputs, number of GPUs).
C12_OnlyBatchSizeChanges ==
    [][/\ SettingsOf(self') = SettingsOf(self)
       /\ self'.batch_size # self.batch_size =>
              /\ pc = "finish" /\ pc' = "done"
              /\ Len(args.X) > 0
              /\ Len(examples) < self.batch_size
              /\ self'.batch_size =
                     IF Len(examples) >= self.n_gpus
                     THEN Len(examples) ELSE self.n_gpus
       /\ (pc = "finish" /\ Len(examples) >= self.batch_size) =>
              self' = self]_vars

\* a call that returned two examples to a module whose batch_size was
\* larger, and lowered it to 2
C12_Witness ==
    /\ pc = "done"
    /\ data.n_inputs = 2
    /\ self.batch_size = 2
    /\ self.batch_size \notin BatchSizes

\* the document an instance was sampled from
DocumentOf(k) == args.X[instances[k].document_index + 1].segments

\* C14 (as claimed): no instance sampled from a document of two segments or
\* more has its split point a at 0 or at len(buffer), whatever buffer the
\* greedy accumulation formed, a single leftover segment included.
C14_SplitInsideBuffer ==
    \A k \in 1..Len(instances) :
        Len(DocumentOf(k)) >= 2 =>
            /\ instances[k].instance.split # 0
            /\ instances[k].instance.split # instances[k].instance.buffer_len

\* C14 (amended): the split point a of an instance is never 0; for a buffer
\* of two segments or more it lies in 1..len(buffer)-1; for a buffer of one
\* segment it is 1 = len(buffer).
C14_SplitInsideLongBuffer ==
    \A k \in 1..Len(instances) :
        /\ instances[k].instance.buffer_len >= 1
        /\ instances[k].instance.split >= 1
        /\ instances[k].instance.buffer_len >= 2 =>
               instances[k].instance.split
                   <= instances[k].instance.buffer_len - 1
        /\ instances[k].instance.buffer_len = 1 =>
               instances[k].instance.split = 1

\* instances sampled from documents of two segments: one from a buffer of
\* both segments, one from a buffer of a single leftover segment
C14_Witness ==
    /\ \E k \in 1..Len(instances) :
           /\ Len(DocumentOf(k)) >= 2
           /\ instances[k].instance.buffer_len = 2
           /\ instances[k].instance.split = 1
    /\ \E k \in 1..Len(instances) :
           /\ Len(DocumentOf(k)) >= 2
           /\ instances[k].instance.buffer_len = 1

\* the tokens of an example before masking, and those that are neither
\* "[CLS]" nor "[SEP]"
Unmasked(ex) == InputTokens(ex.segments)
Ordinary(ex) ==
    {i \in 1..Len(Unmasked(ex)) : Unmasked(ex)[i] \notin {"[CLS]", "[SEP]"}}

\* C16: without permutation, for every token sequence with a maskable
\* token the masker selects exactly min(max_predictions_per_seq,
\* max(1, round(num_maskable_tokens * masked_lm_prob))) positions, all
\* distinct and none of "[CLS]" or "[SEP]"; for "[CLS] the cat sat [SEP]"
\* with masked_lm_prob = 0.5 and max_predictions_per_seq = 2 it selects
\* exactly 2 of the 3 maskable tokens.
C16_MaskBudget ==
    (args.is_training /\ ~self.do_permutation) =>
        \A k \in ExampleIndices :
            Ordinary(Example(k)) # {} =>
                /\ Example(k).n_masked =
                       Min(self.max_predictions_per_seq,
                           Max(1, RoundPct(Cardinality(Ordinary(Example(k))),
                                           self.masked_lm_prob)))
                /\ \A i, j \in 1..Example(k).n_masked :
                       Example(k).masked_lm_positions[i] =
                           Example(k).masked_lm_positions[j] => i = j
                /\ \A j \in 1..Example(k).n_masked :
                       Example(k).masked_lm_positions[j] + 1
                           \in Ordinary(Example(k))
                /\ (/\ Example(k).segments = CatSentence
                    /\ self.masked_lm_prob = 50
                    /\ self.max_predictions_per_seq = 2) =>
                       Example(k).n_masked = 2

\* the scenario: two of "the", "cat", "sat" were selected
C16_Witness ==
    /\ pc = "done"
    /\ args.is_training /\ ~self.do_permutation
    /\ self.masked_lm_prob = 50
    /\ self.max_predictions_per_seq = 2
    /\ Len(examples) = 1
    /\ Example(1).segments = CatSentence
    /\ Example(1).n_masked = 2
    /\ Example(1).masked_lm_positions[1] = 1
    /\ Example(1).masked_lm_positions[2] = 3

\* C17: in training with do_sample_sentence, once the instances are
\* sampled there is one sentence-order label for each of them, the i-th
\* label being the is_random_next flag of the i-th instance; the instances
\* are ordered by document index and then by generation order; the i-th
\* example is built from the i-th instance, and at the end of _convert_X
\* there are as many labels as examples, a document that gave no instance
\* contributing neither.
C17_LabelsAligned ==
    (args.is_training /\ self.do_sample_sentence) =>
        /\ Len(sentence_order_labels) = Len(instances)
        /\ \A i \in 1..Len(instances) :
               sentence_order_labels[i] = instances[i].instance.is_random_next
        /\ \A i, j \in 1..Len(instances) :
               i < j =>
                   \/ instances[i].document_index < instances[j].document_index
                   \/ /\ instances[i].document_index
                             = instances[j].document_index
                      /\ instances[i].order < instances[j].order
        /\ Len(examples) <= Len(instances)
        /\ \A i \in ExampleIndices :
               Example(i).segments =
                   truncate_segments(instances[i].instance.segments,
                       TruncateBudget(self, instances[i].instance.segments)
                       ).segments
        /\ pc \in {"finish", "done"} =>
               /\ Len(examples) = Len(sentence_order_labels)
               /\ \A d \in 1..Len(args.X) :
                      (\A i \in 1..Len(instances) :
                           instances[i].document_index # d - 1) =>
                          (\A i \in ExampleIndices :
                               instances[i].document_index # d - 1)

\* a finished call on a batch whose first document gave no instance and
\* whose second gave a swapped instance followed by a kept one
C17_Witness ==
    /\ pc = "done"
    /\ args.is_training /\ self.do_sample_sentence
    /\ args.X = EmptyDocumentBatch
    /\ Len(examples) >= 3
    /\ instances[1].document_index = 1
    /\ instances[2].document_index = 1
    /\ sentence_order_labels[1] = TRUE
    /\ sentence_order_labels[2] = FALSE

\* the places of "[MASK]" in the tokens of an example, counted from 0
MaskIndices(ex) == {i - 1 : i \in {j \in 1..Len(ex.tokens) : ex.tokens[j] = "[MASK]"}}

\* C19: in inference the input tokens are those of the segments, unchanged;
\* the entries of masked_lm_positions before the padding are exactly the
\* indices of the "[MASK]" tokens, ascending and without duplicates; only
\* zeros follow; and no masked_lm_ids or masked_lm_weights are produced.
C19_InferencePositions ==
    ~args.is_training =>
        /\ \A k \in ExampleIndices :
               /\ Example(k).tokens = InputTokens(Example(k).segments)
               /\ \A i \in 1..Len(Example(k).tokens) :
                      Vocab[Example(k).input_ids[i] + 1] = Example(k).tokens[i]
               /\ Example(k).n_masked = Cardinality(MaskIndices(Example(k)))
               /\ \A j \in 1..Example(k).n_masked :
                      Example(k).masked_lm_positions[j] \in MaskIndices(Example(k))
               /\ \A i, j \in 1..Example(k).n_masked :
                      i < j => Example(k).masked_lm_positions[i]
                                   < Example(k).masked_lm_positions[j]
               /\ \A j \in 1..Len(Example(k).masked_lm_positions) :
                      j > Example(k).n_masked =>
                          Example(k).masked_lm_positions[j] = 0
               /\ Example(k).masked_lm_ids = <<>>
               /\ Example(k).masked_lm_weights = <<>>
        /\ data.returned =>
               /\ "masked_lm_ids" \notin data.keys
               /\ "masked_lm_weights" \notin data.keys

\* an inference example "[CLS] a [SEP] [MASK] [SEP]": position 3, then padding
C19_Witness ==
    /\ pc = "done"
    /\ ~args.is_training
    /\ \E k \in ExampleIndices :
           /\ Example(k).tokens = <<"[CLS]", "a", "[SEP]", "[MASK]", "[SEP]">>
           /\ Example(k).masked_lm_positions = <<3, 0>>

\* the place of "[CLS]" or of the "[SEP]" that precedes segment s of an
\* example, counted from 1
SegmentStart(ex, s) == 1 + TotalLen(SubSeq(ex.segments, 1, s - 1)) + (s - 1)

\* C20: segment_ids is 0 for "[CLS]" and for the tokens and the "[SEP]" of
\* the first segment, 1 for the tokens and the "[SEP]" of every later
\* segment, and 0 on padding; it has as many entries before the padding as
\* input_mask has 1s.
C20_SegmentIds ==
    \A k \in ExampleIndices :
        /\ Example(k).segment_ids[1] = 0
        /\ \A s \in 1..Len(Example(k).segments) :
               \A i \in 1..(Len(Example(k).segments[s]) + 1) :
                   Example(k).segment_ids[SegmentStart(Example(k), s) + i] =
                       IF s = 1 THEN 0 ELSE 1
        /\ \A i \in 1..Len(Example(k).segment_ids) :
               i > RealTokens(Example(k)) => Example(k).segment_ids[i] = 0
        /\ Len(Example(k).segment_ids) = Len(Example(k).input_mask)
        /\ SumSeq(Example(k).input_mask) = RealTokens(Example(k))
        /\ RealTokens(Example(k)) <= Len(Example(k).segment_ids)

\* an example of three segments followed by padding
C20_Witness ==
    /\ pc = "done"
    /\ \E k \in ExampleIndices :
           /\ Example(k).segments = ThreeSegments
           /\ Example(k).segment_ids = <<0, 0, 0, 1, 1, 1, 1, 0, 0, 0>>

(***************************************************************************)
(* SpecConstruct: the end of ALBERTClassifier.__init__ and of              *)
(* ALBERTLM.__init__, which make sure of "[CLS]" and "[SEP]".  args holds  *)
(* the files given to the constructor, self the tokenizer and the          *)
(* configuration built from them.  A vocabulary is the sequence of its     *)
(* tokens, the id of a token being its place counted from 0.               *)
(***************************************************************************)
FileWords == {"[PAD]", "[CLS]", "[SEP]", "[MASK]", "a"}

\* the vocabulary files: tokens listed once each
VocabFiles ==
    {f \in SeqsUpTo(FileWords, 0, MaxVocabFile) :
        \A i, j \in 1..Len(f) : f[i] = f[j] => i = j}

\* vocab_size of a configuration file: that of its vocabulary file, or a
\* larger one
ConfigVocabSizes(vocab_file) == {Len(vocab_file), Len(vocab_file) + 30000}

\* token in self.tokenizer.vocab
InVocab(vocab, token) == \E k \in 1..Len(vocab) : vocab[k] = token

\* WordPieceTokenizer.add (not among the sources): the token is appended
\* and takes the next id
add(vocab, token) == Append(vocab, token)

\* a module that adds the token without looking for it
EnsureTokenUnguarded(s, token) ==
    [s EXCEPT !.tokenizer.vocab = add(@, token),
              !.albert_config.vocab_size = @ + 1]

\* if token not in self.tokenizer.vocab: add it, vocab_size += 1
EnsureToken(s, token) ==
    IF ~InVocab(s.tokenizer.vocab, token)
    THEN [s EXCEPT !.tokenizer.vocab = add(@, token),
                   !.albert_config.vocab_size = @ + 1]
    ELSE s

ConstructorCalls ==
    {[given |-> TRUE, class |-> c, vocab_file |-> f,
      config_file |-> [vocab_size |-> n]] :
        c \in {"ALBERTClassifier", "ALBERTLM"}, f \in VocabFiles,
        n \in UNION {ConfigVocabSizes(g) : g \in VocabFiles}}

InitConstruct ==
    /\ args \in {a \in ConstructorCalls :
                    a.config_file.vocab_size \in ConfigVocabSizes(a.vocab_file)}
    /\ self = [given |-> TRUE,
               tokenizer |-> [vocab |-> args.vocab_file],
               albert_config |-> [vocab_size |-> args.config_file.vocab_size]]
    /\ pc = "ensure_cls"
    /\ idx = 0
    /\ segment_input_tokens = <<>>
    /\ new_segment_input_tokens = <<>>
    /\ sentence_order_labels = <<>>
    /\ instances = <<>>
    /\ examples = <<>>
    /\ error = NoError
    /\ data = NoData
    /\ vf = NoVerifier
    /\ vf_evals = <<>>
    /\ rr = NoRetro
    /\ rr_evals = <<>>

\* __init__: if "[CLS]" not in self.tokenizer.vocab: ...
EnsureCls ==
    /\ pc = "ensure_cls"
    /\ self' = EnsureToken(self, "[CLS]")
    /\ pc' = "ensure_sep"
    /\ UNCHANGED <<args, idx, segment_input_tokens, new_segment_input_tokens,
                   sentence_order_labels, instances, examples, error, data,
                   vf, vf_evals, rr, rr_evals>>

\* __init__: if "[SEP]" not in self.tokenizer.vocab: ...
EnsureSep ==
    /\ pc = "ensure_sep"
    /\ self' = EnsureToken(self, "[SEP]")
    /\ pc' = "constructed"
    /\ UNCHANGED <<args, idx, segment_input_tokens, new_segment_input_tokens,
                   sentence_order_labels, instances, examples, error, data,
                   vf, vf_evals, rr, rr_evals>>

NextConstruct == EnsureCls \/ EnsureSep

SpecConstruct == InitConstruct /\ [][NextConstruct]_vars

\* the tokens added to the vocabulary so far
AddedTokens ==
    SubSeq(self.tokenizer.vocab, Len(args.vocab_file) + 1,
           Len(self.tokenizer.vocab))

\* C13: after construction "[CLS]" and "[SEP]" are in the vocabulary; a
\* token is added only if it was absent, so none is listed twice; every
\* token of the vocabulary file keeps its id; and vocab_size has grown by
\* exactly the number of tokens added.
C13_VocabularyGrowth ==
    /\ pc = "constructed" =>
           /\ InVocab(self.tokenizer.vocab, "[CLS]")
           /\ InVocab(self.tokenizer.vocab, "[SEP]")
    /\ Len(self.tokenizer.vocab) >= Len(args.vocab_file)
    /\ \A k \in 1..Len(args.vocab_file) :
           self.tokenizer.vocab[k] = args.vocab_file[k]
    /\ \A i, j \in 1..Len(self.tokenizer.vocab) :
           self.tokenizer.vocab[i] = self.tokenizer.vocab[j] => i = j
    /\ \A k \in 1..Len(AddedTokens) :
           /\ AddedTokens[k] \in {"[CLS]", "[SEP]"}
           /\ ~InVocab(args.vocab_file, AddedTokens[k])
    /\ self.albert_config.vocab_size =
           args.config_file.vocab_size + Len(AddedTokens)

\* a module built on a vocabulary that held "[SEP]" and not "[CLS]": one
\* token was added, behind the tokens of the file
C13_Witness ==
    /\ pc = "constructed"
    /\ InVocab(args.vocab_file, "[SEP]")
    /\ ~InVocab(args.vocab_file, "[CLS]")
    /\ Len(args.vocab_file) >= 2
    /\ AddedTokens = <<"[CLS]">>

====
